---- MODULE Spec2Model ----
(***************************************************************************)
(* A model of gitar's request execution engine: the paged list functions   *)
(* (remote/query.rs paged!), the Paginator and backoff they drive, the     *)
(* single-call functions (send_request, send!, num_pages), the older Gitlab *)
(* list operations and Gitlab::open, merge, get and close (gitlab.rs),      *)
(* Gitlab::get_project_data (gitlab/project.rs), and the list_* and count   *)
(* commands (cmds/common.rs).                                               *)
(* One operation runs at a time (the program is single-threaded and        *)
(* blocking); the remote is free to answer each runner invocation with any *)
(* response of a bounded set, or with a transport failure.                 *)
(***************************************************************************)
EXTENDS Integers, Sequences, FiniteSets, TLC

VARIABLES
    pc,       \* position: "idle", "next", "run", "done"
    op,       \* the running operation and its inputs
    request,  \* the Request the operation built (Paginator mutates its url)
    pag,      \* the Paginator's own fields
    acc,      \* what collect() has gathered so far: one Vec per yielded page
    trace,    \* the effects so far, in order: runner runs, sleeps, prints
    waits,    \* the backoff waits taken for the request in flight
    resp,     \* what the runner returned last
    stdout,   \* what paged! flushed to standard output
    writer,   \* what the list_* command wrote to its writer
    result,   \* the return value of the list or single-call operation
    cmdResult \* the return value of the list_* command

vars == <<pc, op, request, pag, acc, trace, waits, resp, stdout, writer, result, cmdResult>>

----------------------------------------------------------------------------
(* Bounds of the model *)

\* the most pages a remote serves under the link-relation strategy, and the
\* largest max_pages a caller asks for
MaxPages == 2
\* the most elements in one page's JSON array
MaxItems == 2
\* the largest backoff_max_retries a caller configures
MaxBackoffRetries == 1

----------------------------------------------------------------------------
(* Option<T>: None is the empty sequence, Some(x) the one-element sequence *)

None == <<>>
Some(x) == <<x>>
IsSome(o) == o # <<>>
Unwrap(o) == o[1]

Min(a, b) == IF a <= b THEN a ELSE b

RECURSIVE Pow2(_)
Pow2(n) == IF n = 0 THEN 1 ELSE 2 * Pow2(n - 1)

\* the pages joined last page first
RECURSIVE FlattenReversed(_)
FlattenReversed(vs) ==
    IF vs = <<>> THEN <<>> ELSE FlattenReversed(Tail(vs)) \o Head(vs)

RECURSIVE Flatten(_)
\* Vec<Vec<T>>::into_iter().flatten().collect()
Flatten(vs) == IF vs = <<>> THEN <<>> ELSE Head(vs) \o Flatten(Tail(vs))

----------------------------------------------------------------------------
(* Results *)

Ok(v) ==
    [tag |-> "Ok", val |-> v, err |-> "", body |-> <<>>, status |-> 0, msg |-> ""]
\* an error: its kind (the GRError variant, "Generic" for error::gen, "Json"
\* for a serde_json error), and the response body and status its message
\* carries (<<>> and 0 when it carries none)
Err(kind, body, status) ==
    [tag |-> "Err", val |-> <<>>, err |-> kind, body |-> body, status |-> status,
     msg |-> ""]
\* an error whose message is a fixed text
ErrMessage(kind, msg) ==
    [tag |-> "Err", val |-> <<>>, err |-> kind, body |-> <<>>, status |-> 0,
     msg |-> msg]
\* unwrap() on None or on a failed parse: the process aborts
Panic ==
    [tag |-> "Panic", val |-> <<>>, err |-> "", body |-> <<>>, status |-> 0, msg |-> ""]
\* no value yet
NoResult ==
    [tag |-> "None", val |-> <<>>, err |-> "", body |-> <<>>, status |-> 0, msg |-> ""]

----------------------------------------------------------------------------
(* JSON bodies and entities *)

\* the i-th element of the array served on the r-th yielded page; within a
\* page the remote lists older elements first
Element(r, i) == [req |-> r, idx |-> i, created_at |-> i]

\* <$map_type>::from(data).into(): the domain entity of a JSON element
MapEntity(d) == [id |-> <<d.req, d.idx>>, created_at |-> d.created_at]

MapAll(items) == [i \in 1..Len(items) |-> MapEntity(items[i])]

\* the arrays a remote may serve as the r-th page: an empty one and a full one
PageArrays(r) == {[i \in 1..k |-> Element(r, i)] : k \in {0, MaxItems}}

\* a body: unparsable text, a JSON array, or a JSON object that holds (or
\* lacks) the named sub-array
TextBody == [valid |-> FALSE, shape |-> "text", items |-> <<>>]
ArrayBody(items) == [valid |-> TRUE, shape |-> "array", items |-> items]
ObjectBody(items) == [valid |-> TRUE, shape |-> "object", items |-> items]
BareObjectBody == [valid |-> TRUE, shape |-> "bare", items |-> <<>>]

\* the bodies of the r-th page: a failure status comes with an error
\* document, a success status with any body
Bodies(status, r) ==
    {TextBody, BareObjectBody}
        \cup (IF status >= 200 /\ status < 300
              THEN {ArrayBody(a) : a \in PageArrays(r)}
                       \cup {ObjectBody(a) : a \in PageArrays(r)}
              ELSE {})

\* json_loads: any JSON value
json_loads(body) == IF body.valid THEN Ok(body) ELSE Err("Json", <<>>, 0)

\* json_load_page: the body as a Vec of JSON values
json_load_page(body) ==
    IF body.valid /\ body.shape = "array" THEN Ok(body.items) ELSE Err("Json", <<>>, 0)

\* body[name].as_array(): Some(elements) only for an object holding the array
SubArray(value) == IF value.shape = "object" THEN Some(value.items) ELSE None

----------------------------------------------------------------------------
(* Requests and responses *)

\* a URL: the text given by the caller (whether it holds a '?' is all the
\* code reads of it) and the page parameter appended to it, with the
\* separator it was appended with
Url(base, query) == [base |-> base, query |-> query, sep |-> "", page |-> None]

BaseUrls == {Url("https://h/api/v4/items", FALSE)}

\* url.contains('?')
UrlContainsQuery(url) == url.query \/ url.sep = "?"

\* the page a URL asks for; 0 when it names none
PageNo(url) == IF IsSome(url.page) THEN Unwrap(url.page) ELSE 0

\* the statuses a remote answers a GET with: success, a client error,
\* throttling, a server error
GetStatuses == {200, 400, 429, 500}

Response(status, body, next, last, retry_after) ==
    [status |-> status, body |-> body, next |-> next, last |-> last,
     retry_after |-> retry_after]

\* what runner.run returns when the call cannot complete
TransportError == Response(0, [valid |-> FALSE, shape |-> "none", items |-> <<>>],
                           None, None, None)
NoResponse == Response(-1, [valid |-> FALSE, shape |-> "none", items |-> <<>>],
                       None, None, None)
IsResponse(r) == r.status > 0

\* response.get_page_headers(): None when the response carries no link header
HasPageHeaders(response) == IsSome(response.next) \/ IsSome(response.last)

\* Response::is_ok(method): a 2xx status
is_ok(response, method) == response.status >= 200 /\ response.status < 300

\* the status with which a server signals throttling
IsThrottled(response) == response.status = 429

\* query_error
query_error(url, response) == Err("RemoteServerError", response.body, response.status)

----------------------------------------------------------------------------
(* ListBodyArgs *)

StartPages == {2}
ThrottleTimes == {None, Some(3)}
RetryAfterSeconds == {2}
\* what the builder leaves when the caller gives no backoff option
DefaultBackoffWait == 60
\* the longest wait of the exponential schedule
BackoffMaxWait == 64

ListBodyArgsSet ==
    {la \in [page : {None} \cup {Some(p) : p \in StartPages},
             max_pages : {None} \cup {Some(n) : n \in 1..MaxPages},
             throttle_time : ThrottleTimes,
             flush : BOOLEAN,
             backoff_max_retries : 0..MaxBackoffRetries,
             backoff_retry_after : RetryAfterSeconds,
             \* the time window: the commands of Spec give none
             created_after : {None},
             created_before : {None}] :
        \* the invariant of ListBodyArgs: a starting page comes with a
        \* maximum page count. max_pages is read only beside a starting
        \* page (build_list_request), so the inputs leave it unset without one
        /\ IsSome(la.page) => IsSome(la.max_pages)
        /\ ~IsSome(la.page) => ~IsSome(la.max_pages)}

ListArgsInputs == {None} \cup {Some(la) : la \in ListBodyArgsSet}

\* build_list_request setting a page range whatever the list arguments
build_list_request_ranged(url, list_args, request_headers, operation) ==
    [method |-> "GET",
     url |-> [url EXCEPT !.sep = IF UrlContainsQuery(url) THEN "&" ELSE "?",
                         !.page = Some(1)],
     max_pages |-> Some(2), headers |-> request_headers, operation |-> operation]

\* build_list_request appending the page with '?' whatever the URL holds
build_list_request_question_mark(url, list_args, request_headers, operation) ==
    LET req == [method |-> "GET", url |-> url, max_pages |-> None,
                headers |-> request_headers, operation |-> operation]
    IN IF IsSome(list_args) /\ IsSome(Unwrap(list_args).page)
       THEN [req EXCEPT
                !.url = [url EXCEPT !.sep = "?", !.page = Unwrap(list_args).page],
                !.max_pages = Some(Unwrap(Unwrap(list_args).max_pages))]
       ELSE req

\* build_list_request without request.set_max_pages
build_list_request_without_max_pages(url, list_args, request_headers, operation) ==
    LET req == [method |-> "GET", url |-> url, max_pages |-> None,
                headers |-> request_headers, operation |-> operation]
    IN IF IsSome(list_args) /\ IsSome(Unwrap(list_args).page)
       THEN [req EXCEPT !.url = [url EXCEPT
                                    !.sep = IF UrlContainsQuery(url) THEN "&" ELSE "?",
                                    !.page = Unwrap(list_args).page]]
       ELSE req

\* build_list_request
build_list_request(url, list_args, request_headers, operation) ==
    LET req == [method |-> "GET", url |-> url, max_pages |-> None,
                headers |-> request_headers, operation |-> operation]
    IN IF IsSome(list_args) /\ IsSome(Unwrap(list_args).page)
       THEN [req EXCEPT
                !.url = [url EXCEPT
                            !.sep = IF UrlContainsQuery(url) THEN "&" ELSE "?",
                            !.page = Unwrap(list_args).page],
                !.max_pages = Some(Unwrap(Unwrap(list_args).max_pages))]
       ELSE req

----------------------------------------------------------------------------
(* The Paginator and the backoff decorator it runs every request through *)

Paginator(throttle_time, backoff_max_retries, backoff_wait_time) ==
    [iter |-> 0,            \* pages yielded so far
     next |-> None,         \* the `next` relation of the last response
     retries |-> 0,         \* retries made of the request in flight
     throttle_time |-> throttle_time,
     backoff_max_retries |-> backoff_max_retries,
     backoff_wait_time |-> backoff_wait_time]

NoPaginator == Paginator(None, 0, 0)

\* the explicit-range strategy applies when the request carries max_pages
ExplicitRange(req) == IsSome(req.max_pages)

\* whether the sequence of pages has ended
PaginatorExhausted(p, req) ==
    IF ExplicitRange(req)
    THEN p.iter = Unwrap(req.max_pages)
    ELSE p.iter >= 1 /\ ~IsSome(p.next)

\* the URL of the next page request: the first request goes out as built;
\* after it the page parameter is incremented (explicit range) or the URL
\* is rewritten with the page of the `next` relation
NextPageUrl(p, req) ==
    IF p.iter = 0 THEN req.url
    ELSE IF ExplicitRange(req)
    THEN [req.url EXCEPT !.page = Some(Unwrap(req.url.page) + 1)]
    ELSE [req.url EXCEPT
             !.sep = IF req.url.sep # "" THEN req.url.sep
                     ELSE IF UrlContainsQuery(req.url) THEN "&" ELSE "?",
             !.page = p.next]

\* the politeness delay taken before a page request
ThrottleSleep(p) ==
    IF p.iter >= 1 /\ IsSome(p.throttle_time) THEN p.throttle_time ELSE None

\* the wait before retrying a throttled request: the server's retry-after
\* when it gives one, else the base wait doubled per retry made, capped
BackoffWait(p, response) ==
    IF IsSome(response.retry_after) THEN Unwrap(response.retry_after)
    ELSE Min(p.backoff_wait_time * Pow2(p.retries), BackoffMaxWait)

\* whether the decorator retries the throttled request once more
BackoffRetries(p, response) ==
    IsThrottled(response) /\ p.retries < p.backoff_max_retries

\* the responses a remote may give to a page request: any status and body,
\* with or without link relations (`next` naming the page after the one
\* asked for) and a retry-after value. Under the link-relation strategy a
\* remote serves at most MaxPages pages: its last one carries no `next`
NextOf(url) == IF PageNo(url) = 0 THEN 2 ELSE PageNo(url) + 1

\* the link header of a response: absent, naming `next` and `last`, or
\* naming `last` alone
PageHeaders(p, req) ==
    {<<None, None>>, <<None, Some(MaxPages)>>}
        \cup (IF ExplicitRange(req) \/ p.iter + 1 < MaxPages
              THEN {<<Some(NextOf(req.url)), Some(MaxPages)>>} ELSE {})

Responses(p, req) ==
    UNION {{Response(st, b, h[1], h[2], ra) :
               b \in Bodies(st, p.iter + 1),
               h \in PageHeaders(p, req),
               ra \in IF st = 429 THEN {None, Some(1)} ELSE {None}}
           : st \in GetStatuses}

----------------------------------------------------------------------------
(* Effects, in the order they happen *)

Event(ev, arg, tok) == [ev |-> ev, arg |-> arg, tok |-> tok]

\* the value of a header of a request ("" when it is not set)
HeaderValue(headers, name) ==
    IF \E h \in headers : h[1] = name
    THEN (CHOOSE h \in headers : h[1] = name)[2] ELSE ""

\* runner.run(&mut request): the page asked for and the token sent
RunEvent(req) == Event("run", PageNo(req.url), HeaderValue(req.headers, "PRIVATE-TOKEN"))
\* the Paginator yields a response: the number of elements of its body
YieldEvent(response) == Event("yield", Len(response.body.items), "")
SleepEvent(d) == Event("sleep", d, "")
\* display::print(sink, objs, ..)
PrintEvent(sink, objs) == Event("print", Len(objs), sink)

Events(ev) == SelectSeq(trace, LAMBDA e : e.ev = ev)
\* runner invocations of the operation so far
Calls == Len(Events("run"))

\* writer.write_all(text) and display::print(writer, objs): lines of text and
\* printed entities
TextLine(text) == [text |-> text, obj |-> <<>>]
ObjLine(e) == [text |-> "", obj |-> <<e>>]
ObjLines(objs) == [i \in 1..Len(objs) |-> ObjLine(objs[i])]

----------------------------------------------------------------------------
(* What the list functions do with each page, and with all of them *)

RECURSIVE InsertByDate(_, _)
\* e placed behind every entity at least as recent as it
InsertByDate(sorted, e) ==
    IF sorted = <<>> THEN <<e>>
    ELSE IF Head(sorted).created_at >= e.created_at
    THEN <<Head(sorted)>> \o InsertByDate(Tail(sorted), e)
    ELSE <<e>> \o sorted

RECURSIVE SortByDate(_)
\* most recent first, entities of one date in their order of arrival
SortByDate(data) ==
    IF data = <<>> THEN <<>>
    ELSE InsertByDate(SortByDate(SubSeq(data, 1, Len(data) - 1)), data[Len(data)])

\* whether an entity lies in the time window of the list arguments: not
\* older than created_after, not more recent than created_before
InTimeWindow(e, list_args) ==
    \/ ~IsSome(list_args)
    \/ /\ (IsSome(Unwrap(list_args).created_after)
            => e.created_at >= Unwrap(Unwrap(list_args).created_after))
       /\ (IsSome(Unwrap(list_args).created_before)
            => e.created_at <= Unwrap(Unwrap(list_args).created_before))

\* the end of paged! without sort_filter_by_date
PagedCollectedUnsorted(pages, list_args) == Ok(Flatten(pages))

\* sort_filter_by_date
sort_filter_by_date(data, list_args) ==
    Ok(SortByDate(SelectSeq(data, LAMBDA e : InTimeWindow(e, list_args))))

\* GRError::RemoteUnexpectedResponseContract(format!("Expected an array of
\* {} but got: {}", sub, response.body)): the text before the body, and the
\* body
ContractError(sub, body) ==
    [Err("RemoteUnexpectedResponseContract", body, 0) EXCEPT
        !.msg = "Expected an array of " \o sub \o " but got: "]

\* the closure of paged! taking a body without the named array for an
\* empty page
PagedMapMissingAsEmpty(response, url, sub) ==
    IF ~is_ok(response, "GET") THEN query_error(url, response)
    ELSE IF IsSome(sub)
    THEN LET body == json_loads(response.body) IN
         IF body.tag = "Err" THEN body
         ELSE IF ~IsSome(SubArray(body.val)) THEN Ok(<<>>)
         ELSE Ok(MapAll(Unwrap(SubArray(body.val))))
    ELSE LET page == json_load_page(response.body) IN
         IF page.tag = "Err" THEN page ELSE Ok(MapAll(page.val))

\* the closure of paged! without its status check
PagedMapWithoutStatusCheck(response, url, sub) ==
    IF IsSome(sub)
    THEN LET body == json_loads(response.body) IN
         IF body.tag = "Err" THEN body
         ELSE IF ~IsSome(SubArray(body.val))
         THEN ContractError(Unwrap(sub), response.body)
         ELSE Ok(MapAll(Unwrap(SubArray(body.val))))
    ELSE LET page == json_load_page(response.body) IN
         IF page.tag = "Err" THEN page ELSE Ok(MapAll(page.val))

\* the closure paged! maps over the Paginator, up to the flush: the
\* response checked, its array found and every element mapped
PagedMap(response, url, sub) ==
    IF ~is_ok(response, "GET") THEN query_error(url, response)
    ELSE IF IsSome(sub)
    THEN LET body == json_loads(response.body) IN
         IF body.tag = "Err" THEN body
         ELSE IF ~IsSome(SubArray(body.val))
         THEN ContractError(Unwrap(sub), response.body)
         ELSE Ok(MapAll(Unwrap(SubArray(body.val))))
    ELSE LET page == json_load_page(response.body) IN
         IF page.tag = "Err" THEN page ELSE Ok(MapAll(page.val))

\* list_args.flush of an optional ListBodyArgs
Flush(list_args) == IsSome(list_args) /\ Unwrap(list_args).flush

\* the end of paged!: the pages flattened, then sorted and filtered by date
PagedCollected(pages, list_args) == sort_filter_by_date(Flatten(pages), list_args)

\* the closure of Gitlab::list, list_pipelines and get_project_members
GitlabListMap(response) ==
    IF response.status # 200 THEN Err("Generic", response.body, 0)
    ELSE IF ~(response.body.valid /\ response.body.shape = "array")
    THEN Err("Json", <<>>, 0)
    ELSE Ok(MapAll(response.body.items))

\* the end of the Gitlab list operations: the pages flattened
GitlabListCollected(pages) == Ok(Flatten(pages))

----------------------------------------------------------------------------
(* Single calls: send_request and Gitlab::open *)

\* the statuses a remote answers a single call with
SendStatuses == {200, 201, 404, 429, 500}
SendMethods == {"GET", "POST"}
SendResponses ==
    {Response(st, b, None, None, None) :
        st \in SendStatuses, b \in {TextBody, BareObjectBody}}

\* send_request handing a transport failure to its status check
send_request_checking_failed_call(response, url, method) ==
    IF ~is_ok(response, method) THEN query_error(url, response)
    ELSE Ok(<<response>>)

\* send_request, after runner.run has answered
send_request(response, url, method) ==
    IF ~IsResponse(response) THEN Err("HttpTransportError", <<>>, 0)
    ELSE IF ~is_ok(response, method) THEN query_error(url, response)
    ELSE Ok(<<response>>)

Domain == "gitlab.com"
Path == "owner/repo"
\* Gitlab::new: rest_api_basepath, with the path percent-encoded
RestApiBasepath == "https://gitlab.com/api/v4/projects/owner%2Frepo"

Digits == <<"0", "1", "2", "3", "4", "5", "6", "7", "8", "9">>
IsDigit(c) == \E i \in 1..Len(Digits) : Digits[i] = c
DigitValue(c) == (CHOOSE i \in 1..Len(Digits) : Digits[i] = c) - 1

RECURSIVE DecimalValue(_)
DecimalValue(ds) ==
    IF ds = <<>> THEN 0
    ELSE DecimalValue(SubSeq(ds, 1, Len(ds) - 1)) * 10 + DigitValue(ds[Len(ds)])

\* str::parse::<i64>: an optional sign, then one or more decimal digits
ParseI64(chars) ==
    LET signed == chars # <<>> /\ Head(chars) \in {"+", "-"}
        ds == IF signed THEN Tail(chars) ELSE chars
    IN IF ds = <<>> \/ \E i \in 1..Len(ds) : ~IsDigit(ds[i]) THEN None
       ELSE IF signed /\ Head(chars) = "-" THEN Some(0 - DecimalValue(ds))
       ELSE Some(DecimalValue(ds))

RECURSIVE TrimStart(_, _)
TrimStart(chars, c) ==
    IF chars # <<>> /\ Head(chars) = c THEN TrimStart(Tail(chars), c) ELSE chars
RECURSIVE TrimEnd(_, _)
TrimEnd(chars, c) ==
    IF chars # <<>> /\ chars[Len(chars)] = c
    THEN TrimEnd(SubSeq(chars, 1, Len(chars) - 1), c) ELSE chars
\* str::trim_matches(c)
trim_matches(chars, c) == TrimEnd(TrimStart(chars, c), c)

\* the words a conflict message may end with: split_whitespace().last()
\* reads no other
Word == <<"b", "r", "a", "n", "c", "h", ":">>
LastWords ==
    {<<"!", "6", "0">>, <<"!", "7">>, <<"6", "0">>, <<"!", "6", "0", "!">>,
     <<"!", "!", "5">>, <<"-", "5">>, <<"!">>, <<"6", "!", "0">>, Word}
\* message[0] as its whitespace-separated words
Messages == {<<>>} \cup {<<Word, w>> : w \in LastWords}

\* format!("https://{}/{}/-/merge_requests/{}", domain, path, iid)
MergeRequestUrl(domain, path, iid) ==
    <<"https://", domain, "/", path, "/-/merge_requests/">> \o iid

\* {"message": [m]}
ConflictBody(m) == [valid |-> TRUE, shape |-> "conflict", items |-> m]
\* {"iid": iid, "web_url": web_url}, the number iid as its digits
MergeRequestBody(iid, web_url) ==
    [valid |-> TRUE, shape |-> "merge_request", items |-> <<iid, web_url>>]
Iids == {<<"7">>, <<"6", "0">>}
OpenBodies ==
    {TextBody, BareObjectBody}
        \cup {ConflictBody(m) : m \in Messages}
        \cup {MergeRequestBody(i, MergeRequestUrl(Domain, Path, i)) : i \in Iids}
OpenStatuses == {200, 201, 400, 409, 429, 500}
OpenResponses ==
    {Response(st, b, None, None, None) : st \in OpenStatuses, b \in OpenBodies}

\* MergeRequestResponse::new(id, web_url, "", "", "")
MergeRequestResponse(id, web_url) == [id |-> id, web_url |-> web_url]

\* the merge request an "already exists" conflict names
OpenConflict(response, domain, path) ==
    IF ~response.body.valid THEN Err("Json", <<>>, 0)
    ELSE IF response.body.shape # "conflict" THEN Panic
    ELSE IF response.body.items = <<>> THEN Panic
    ELSE LET merge_request_iid ==
                 trim_matches(response.body.items[Len(response.body.items)], "!")
         IN IF ~IsSome(ParseI64(merge_request_iid)) THEN Panic
            ELSE Ok(<<MergeRequestResponse(
                        Unwrap(ParseI64(merge_request_iid)),
                        MergeRequestUrl(domain, path, merge_request_iid))>>)

\* the merge request a 201 response describes
OpenCreated(response) ==
    IF ~response.body.valid THEN Err("Json", <<>>, 0)
    ELSE IF response.body.shape # "merge_request" THEN Panic
    ELSE Ok(<<MergeRequestResponse(DecimalValue(response.body.items[1]),
                                   response.body.items[2])>>)

\* Gitlab::open testing the status against 201 before it looks for a conflict
open_status_first(response, domain, path) ==
    IF ~IsResponse(response) THEN Err("HttpTransportError", <<>>, 0)
    ELSE IF response.status # 201 THEN Err("Generic", response.body, 0)
    ELSE OpenCreated(response)

\* Gitlab::open taking every 2xx status for a created merge request
open_accepts_2xx(response, domain, path) ==
    IF ~IsResponse(response) THEN Err("HttpTransportError", <<>>, 0)
    ELSE IF response.status = 409 THEN OpenConflict(response, domain, path)
    ELSE IF ~is_ok(response, "POST") THEN Err("Generic", response.body, 0)
    ELSE OpenCreated(response)

\* Gitlab::open, after runner.run has answered
open(response, domain, path) ==
    IF ~IsResponse(response) THEN Err("HttpTransportError", <<>>, 0)
    ELSE IF response.status = 409 THEN OpenConflict(response, domain, path)
    ELSE IF response.status # 201 THEN Err("Generic", response.body, 0)
    ELSE OpenCreated(response)

----------------------------------------------------------------------------
(* The operations *)

ApiToken == "1234"
\* the headers of a Gitlab operation that sets no token
GitlabHeadersWithoutToken == {<<"Accept", "application/json">>}
\* the headers a Gitlab operation sets on its request
GitlabHeaders == {<<"PRIVATE-TOKEN", ApiToken>>}

NoOp == [kind |-> "none", list_args |-> None, sub |-> None, url |-> Url("", FALSE)]
NoRequest == [method |-> "", url |-> Url("", FALSE), max_pages |-> None,
              headers |-> {}, operation |-> ""]

Init ==
    /\ pc = "idle"
    /\ op = NoOp
    /\ request = NoRequest
    /\ pag = NoPaginator
    /\ acc = <<>>
    /\ trace = <<>>
    /\ waits = <<>>
    /\ resp = NoResponse
    /\ stdout = <<>>
    /\ writer = <<>>
    /\ result = NoResult
    /\ cmdResult = NoResult

\* paged! with its arguments swapped: the base wait given as max retries
PagedPaginatorSwapped(list_args) ==
    IF IsSome(list_args)
    THEN Paginator(Unwrap(list_args).throttle_time,
                   Unwrap(list_args).backoff_retry_after,
                   Unwrap(list_args).backoff_max_retries)
    ELSE Paginator(None, 0, DefaultBackoffWait)

\* paged! making its Paginator without the throttle delay
PagedPaginatorUnthrottled(list_args) ==
    IF IsSome(list_args)
    THEN Paginator(None,
                   Unwrap(list_args).backoff_max_retries,
                   Unwrap(list_args).backoff_retry_after)
    ELSE Paginator(None, 0, DefaultBackoffWait)

\* paged!: the Paginator made with the throttle delay and the retry
\* configuration of the list arguments, or with the defaults without them
PagedPaginator(list_args) ==
    IF IsSome(list_args)
    THEN Paginator(Unwrap(list_args).throttle_time,
                   Unwrap(list_args).backoff_max_retries,
                   Unwrap(list_args).backoff_retry_after)
    ELSE Paginator(None, 0, DefaultBackoffWait)

\* a list_* command (list_resource!) calls remote.list(body_args), which
\* calls its paged! function: the request is built and the Paginator made
ListCommand ==
    /\ pc = "idle"
    /\ \E la \in ListArgsInputs, sub \in {None, Some("items")}, url \in BaseUrls :
          /\ op' = [kind |-> "paged", list_args |-> la, sub |-> sub, url |-> url]
          /\ request' = build_list_request(url, la, GitlabHeaders, "Project")
          /\ pag' = PagedPaginator(la)
    /\ pc' = "next"
    /\ UNCHANGED <<acc, trace, waits, resp, stdout, writer, result, cmdResult>>

\* the URLs of Gitlab::list (merge requests of a state) and list_pipelines
GitlabListUrls ==
    {Url(RestApiBasepath \o "/merge_requests?state=opened", TRUE),
     Url(RestApiBasepath \o "/pipelines", FALSE)}

\* Gitlab::list, list_pipelines, get_project_members (gitlab.rs): the request
\* with its token, and a Paginator without throttle delay or retries
GitlabList ==
    /\ pc = "idle"
    /\ \E url \in GitlabListUrls :
          /\ op' = [kind |-> "gitlab_list", list_args |-> None, sub |-> None, url |-> url]
          /\ request' = [method |-> "GET", url |-> url, max_pages |-> None,
                         headers |-> GitlabHeaders, operation |-> "Pipeline"]
    /\ pag' = Paginator(None, 0, 0)
    /\ pc' = "next"
    /\ UNCHANGED <<acc, trace, waits, resp, stdout, writer, result, cmdResult>>

\* list_resource! after remote.list returned (list_remote_objs!): what it
\* returns, what it writes and whether it calls display::print
CommandResult(listed) == IF listed.tag = "Err" THEN listed ELSE Ok(<<>>)

\* list_remote_objs! taking an error of remote.list for an empty list
CommandWritesOnError(listed, list_args) ==
    IF Flush(list_args) THEN <<>>
    ELSE IF listed.tag = "Err" THEN <<TextLine("No resources found.\n")>>
    ELSE IF listed.val = <<>> THEN <<TextLine("No resources found.\n")>>
    ELSE ObjLines(listed.val)

\* list_remote_objs! without its test for an empty list
CommandWritesEntities(listed, list_args) ==
    IF listed.tag = "Err" \/ Flush(list_args) THEN <<>> ELSE ObjLines(listed.val)

\* list_remote_objs! without its test of the flush flag
CommandWritesIgnoringFlush(listed, list_args) ==
    IF listed.tag = "Err" THEN <<>>
    ELSE IF listed.val = <<>> THEN <<TextLine("No resources found.\n")>>
    ELSE ObjLines(listed.val)

CommandWrites(listed, list_args) ==
    IF listed.tag = "Err" \/ Flush(list_args) THEN <<>>
    ELSE IF listed.val = <<>> THEN <<TextLine("No resources found.\n")>>
    ELSE ObjLines(listed.val)

CommandPrints(listed, list_args) ==
    IF listed.tag = "Err" \/ Flush(list_args) \/ listed.val = <<>> THEN <<>>
    ELSE <<PrintEvent("writer", listed.val)>>

\* the list function returns: to the list_* command when that called it,
\* which then returns too
Returns(listed, effects) ==
    /\ result' = listed
    /\ pc' = "done"
    /\ IF op.kind = "paged"
       THEN /\ cmdResult' = CommandResult(listed)
            /\ writer' = writer \o CommandWrites(listed, op.list_args)
            /\ trace' = trace \o effects \o CommandPrints(listed, op.list_args)
       ELSE /\ trace' = trace \o effects
            /\ UNCHANGED <<cmdResult, writer>>

\* collect() going on to the next page after an error
ListFailsAndContinues(e, effects) ==
    /\ acc' = acc
    /\ pc' = "next"
    /\ trace' = trace \o effects
    /\ UNCHANGED <<result, cmdResult, writer>>

\* collect() returning the pages it holds when an error comes
ListFailsWithPages(e, effects) ==
    /\ acc' = acc
    /\ Returns(Ok(Flatten(acc)), effects)

\* an item of the Paginator is an error, or the closure returns one:
\* collect() stops and drops the pages it holds; the list function returns
\* the error
ListFails(e, effects) ==
    /\ acc' = <<>>
    /\ Returns(e, effects)

\* Paginator::next, up to the runner: the end of the pages (collect() then
\* has every page, and the list function returns), or the next page's URL
\* set on the request after the throttle delay
PaginatorNext ==
    /\ pc = "next"
    /\ IF PaginatorExhausted(pag, request)
       THEN /\ Returns(IF op.kind = "paged"
                       THEN PagedCollected(acc, op.list_args)
                       ELSE GitlabListCollected(acc), <<>>)
            /\ UNCHANGED <<request, pag, waits>>
       ELSE /\ request' = [request EXCEPT !.url = NextPageUrl(pag, request)]
            /\ trace' = IF IsSome(ThrottleSleep(pag))
                        THEN Append(trace, SleepEvent(Unwrap(ThrottleSleep(pag))))
                        ELSE trace
            /\ pag' = [pag EXCEPT !.retries = 0]
            /\ waits' = <<>>
            /\ pc' = "run"
            /\ UNCHANGED <<result, cmdResult, writer>>
    /\ UNCHANGED <<op, acc, resp, stdout>>

\* the runner fails to complete the call
RunTransportError ==
    /\ pc = "run"
    /\ resp' = TransportError
    /\ ListFails(Err("HttpTransportError", <<>>, 0), <<RunEvent(request)>>)
    /\ UNCHANGED <<op, request, pag, waits, stdout>>

\* the runner returns a throttling response: the decorator waits and sends
\* the request again, or gives up when the retries are used up
RunThrottled ==
    /\ pc = "run"
    /\ \E response \in Responses(pag, request) :
          /\ IsThrottled(response)
          /\ resp' = response
          /\ IF BackoffRetries(pag, response)
             THEN /\ trace' = Append(trace, RunEvent(request))
                  /\ waits' = Append(waits, BackoffWait(pag, response))
                  /\ pag' = [pag EXCEPT !.retries = @ + 1]
                  /\ UNCHANGED <<pc, acc, result, cmdResult, writer>>
             ELSE /\ ListFails(Err("ExponentialBackoffMaxRetriesReached", <<>>, 0),
                               <<RunEvent(request)>>)
                  /\ UNCHANGED <<pag, waits>>
    /\ UNCHANGED <<op, request, stdout>>

\* the closure of the list function applied to a response
Mapped(response) ==
    IF op.kind = "paged" THEN PagedMap(response, op.url, op.sub)
    ELSE GitlabListMap(response)

\* a failing page taking back what the pages before it printed
RunYieldsRetracting ==
    /\ pc = "run"
    /\ \E response \in Responses(pag, request) :
          /\ ~IsThrottled(response)
          /\ resp' = response
          /\ pag' = [pag EXCEPT !.iter = @ + 1, !.next = response.next]
          /\ IF Mapped(response).tag # "Ok"
             THEN /\ ListFails(Mapped(response),
                               <<RunEvent(request), YieldEvent(response)>>)
                  /\ stdout' = <<>>
             ELSE IF op.kind = "paged" /\ Flush(op.list_args)
             THEN /\ trace' = trace \o <<RunEvent(request), YieldEvent(response),
                                          PrintEvent("stdout", Mapped(response).val)>>
                  /\ stdout' = stdout \o Mapped(response).val
                  /\ acc' = Append(acc, <<>>)
                  /\ pc' = "next"
                  /\ UNCHANGED <<result, cmdResult, writer>>
             ELSE /\ trace' = trace \o <<RunEvent(request), YieldEvent(response)>>
                  /\ acc' = Append(acc, Mapped(response).val)
                  /\ pc' = "next"
                  /\ UNCHANGED <<stdout, result, cmdResult, writer>>
    /\ UNCHANGED <<op, request, waits>>

\* the runner returns any other response: the Paginator notes its `next`
\* relation and yields it, and the closure of the list function maps it;
\* paged! in flush mode prints the page and keeps nothing of it
RunYields ==
    /\ pc = "run"
    /\ \E response \in Responses(pag, request) :
          /\ ~IsThrottled(response)
          /\ resp' = response
          /\ pag' = [pag EXCEPT !.iter = @ + 1, !.next = response.next]
          /\ IF Mapped(response).tag # "Ok"
             THEN /\ ListFails(Mapped(response),
                               <<RunEvent(request), YieldEvent(response)>>)
                  /\ UNCHANGED stdout
             ELSE IF op.kind = "paged" /\ Flush(op.list_args)
             THEN /\ trace' = trace \o <<RunEvent(request), YieldEvent(response),
                                          PrintEvent("stdout", Mapped(response).val)>>
                  /\ stdout' = stdout \o Mapped(response).val
                  /\ acc' = Append(acc, <<>>)
                  /\ pc' = "next"
                  /\ UNCHANGED <<result, cmdResult, writer>>
             ELSE /\ trace' = trace \o <<RunEvent(request), YieldEvent(response)>>
                  /\ acc' = Append(acc, Mapped(response).val)
                  /\ pc' = "next"
                  /\ UNCHANGED <<stdout, result, cmdResult, writer>>
    /\ UNCHANGED <<op, request, waits>>

\* a single call: send_request builds the request and runs it once
SendRequest ==
    /\ pc = "idle"
    /\ \E method \in SendMethods, url \in BaseUrls,
          response \in {TransportError} \cup SendResponses :
          /\ op' = [kind |-> "send", list_args |-> None, sub |-> None, url |-> url]
          /\ request' = [method |-> method, url |-> url, max_pages |-> None,
                         headers |-> GitlabHeaders, operation |-> "Project"]
          /\ trace' = Append(trace, RunEvent(request'))
          /\ resp' = response
          /\ result' = send_request(response, url, method)
    /\ pc' = "done"
    /\ UNCHANGED <<pag, acc, waits, stdout, writer, cmdResult>>

\* Gitlab::open: one POST to <basepath>/merge_requests
GitlabOpen ==
    /\ pc = "idle"
    /\ \E response \in {TransportError} \cup OpenResponses :
          /\ op' = [kind |-> "open", list_args |-> None, sub |-> None,
                    url |-> Url(RestApiBasepath \o "/merge_requests", FALSE)]
          /\ request' = [method |-> "POST",
                         url |-> Url(RestApiBasepath \o "/merge_requests", FALSE),
                         max_pages |-> None, headers |-> GitlabHeaders,
                         operation |-> "MergeRequest"]
          /\ trace' = Append(trace, RunEvent(request'))
          /\ resp' = response
          /\ result' = open(response, Domain, Path)
    /\ pc' = "done"
    /\ UNCHANGED <<pag, acc, waits, stdout, writer, cmdResult>>

----------------------------------------------------------------------------
(* Metadata queries: num_pages and the commands that print a count *)

\* the URLs num_pages is called with: a list URL, and the project list URL
\* to which list_project_url(args, true) appends ?page=1
NumPagesUrls ==
    {Url("https://h/api/v4/items", FALSE),
     [Url("https://gitlab.com/api/v4/projects", FALSE) EXCEPT
         !.sep = "?", !.page = Some(1)]}

\* the statuses a remote answers a HEAD with
HeadStatuses == {200, 404, 500}
\* the pages a `last` relation may name: remotes number pages from 1
LastPages == 1..MaxPages
\* the link header of the answer to a HEAD: absent, naming `next` alone,
\* naming `last` alone, or naming both
HeadPageHeaders ==
    {<<None, None>>, <<Some(2), None>>}
        \cup {<<None, Some(l)>> : l \in LastPages}
        \cup {<<Some(2), Some(l)>> : l \in LastPages \ {1}}
\* a HEAD is answered without a body
HeadResponses ==
    {Response(st, TextBody, h[1], h[2], None) :
        st \in HeadStatuses, h \in HeadPageHeaders}

\* num_pages returning the status error of send_request for a status that
\* is not 2xx
num_pages_checking_status(response) ==
    IF ~IsResponse(response) THEN Err("HttpTransportError", <<>>, 0)
    ELSE IF ~is_ok(response, "HEAD")
    THEN Err("RemoteServerError", response.body, response.status)
    ELSE IF HasPageHeaders(response)
    THEN IF IsSome(response.last)
         THEN Ok(<<Some(Unwrap(response.last))>>)
         ELSE Ok(<<None>>)
    ELSE Ok(<<Some(1)>>)

\* num_pages taking a response without page headers for an unknown count
num_pages_unknown_without_headers(response) ==
    IF ~IsResponse(response) THEN Err("HttpTransportError", <<>>, 0)
    ELSE IF IsSome(response.last) THEN Ok(<<Some(Unwrap(response.last))>>)
    ELSE Ok(<<None>>)

\* num_pages, after runner.run has answered: Result<Option<u32>>
num_pages(response) ==
    IF ~IsResponse(response) THEN Err("HttpTransportError", <<>>, 0)
    ELSE IF HasPageHeaders(response)
    THEN IF IsSome(response.last)
         THEN Ok(<<Some(Unwrap(response.last))>>)
         ELSE Ok(<<None>>)
    ELSE Ok(<<Some(1)>>)

\* MetadataName::as_str
MetadataNames == {"pages", "resources"}

\* what process_num_metadata writes and what it returns
Processed(out, ret) == [out |-> out, ret |-> ret]

\* process_num_metadata writing a count of 0 when none is known
process_num_metadata_zero(num, resource_name) ==
    IF num.tag = "Err" THEN Processed(<<>>, num)
    ELSE IF IsSome(num.val[1])
    THEN Processed(<<TextLine(ToString(Unwrap(num.val[1])) \o "\n")>>, Ok(<<>>))
    ELSE Processed(<<TextLine(ToString(0) \o "\n")>>, Ok(<<>>))

\* process_num_metadata
process_num_metadata(num, resource_name) ==
    IF num.tag = "Err" THEN Processed(<<>>, num)
    ELSE IF IsSome(num.val[1])
    THEN Processed(<<TextLine(ToString(Unwrap(num.val[1])) \o "\n")>>, Ok(<<>>))
    ELSE Processed(<<TextLine("Number of " \o resource_name \o " not available.\n")>>,
                   Ok(<<>>))

\* the commands of common.rs that take body arguments
MetadataCommands ==
    {"num_project_pages", "num_project_resources",
     "num_comment_merge_request_pages", "num_comment_merge_request_resources"}

\* every *_resources command generated by query_num_resources!
MetadataMacroByName(cmd) ==
    IF cmd \in {"num_project_pages", "num_comment_merge_request_pages"}
    THEN "query_pages" ELSE "query_num_resources"

\* the macro that generates a command
MetadataMacro(cmd) ==
    IF cmd = "num_project_resources" THEN "query_num_resources" ELSE "query_pages"

\* a query_pages! command: remote.num_pages() makes one HEAD request, and
\* process_num_metadata writes what it returned
QueryPages ==
    /\ pc = "idle"
    /\ \E cmd \in {c \in MetadataCommands : MetadataMacro(c) = "query_pages"},
          url \in NumPagesUrls, response \in {TransportError} \cup HeadResponses :
          /\ op' = [kind |-> "num_pages", list_args |-> None, sub |-> None, url |-> url,
                    cmd |-> cmd]
          /\ request' = [method |-> "HEAD", url |-> url, max_pages |-> None,
                         headers |-> GitlabHeaders, operation |-> "Project"]
          /\ trace' = Append(trace, RunEvent(request'))
          /\ resp' = response
          /\ result' = num_pages(response)
          /\ writer' = writer \o process_num_metadata(num_pages(response), "pages").out
          /\ cmdResult' = process_num_metadata(num_pages(response), "pages").ret
    /\ pc' = "done"
    /\ UNCHANGED <<pag, acc, waits, stdout>>

\* the counts a remote may report for a resource
ResourceCounts == 0..(MaxPages * MaxItems)

\* remote.num_resources(), after its one metadata request has been answered:
\* the count the response signals, or None when it signals none
NumResources(response) ==
    IF ~IsResponse(response) THEN {Err("HttpTransportError", <<>>, 0)}
    ELSE {Ok(<<None>>)} \cup {Ok(<<Some(n)>>) : n \in ResourceCounts}

\* a query_num_resources! command: remote.num_resources() reads the count
\* off one response, and process_num_metadata writes what it returned
QueryNumResources ==
    /\ pc = "idle"
    /\ \E cmd \in {c \in MetadataCommands : MetadataMacro(c) = "query_num_resources"},
          url \in NumPagesUrls, response \in {TransportError} \cup HeadResponses :
          /\ op' = [kind |-> "num_resources", list_args |-> None, sub |-> None,
                    url |-> url, cmd |-> cmd]
          /\ request' = [method |-> "HEAD", url |-> url, max_pages |-> None,
                         headers |-> GitlabHeaders, operation |-> "Project"]
          /\ trace' = Append(trace, RunEvent(request'))
          /\ resp' = response
          /\ \E num \in NumResources(response) :
                /\ result' = num
                /\ writer' = writer \o process_num_metadata(num, "resources").out
                /\ cmdResult' = process_num_metadata(num, "resources").ret
    /\ pc' = "done"
    /\ UNCHANGED <<pag, acc, waits, stdout>>

----------------------------------------------------------------------------
(* Gitlab::get_project_data (gitlab/project.rs) and the send! functions *)

\* a path as its segments: owner/repo
PathSegments == <<"owner", "repo">>
\* the paths a caller may ask for: the configured repository's, or another's
ProjectPaths == {PathSegments, <<"jordilin", "gitlapi">>}
RECURSIVE encode_path(_)
\* encode_path: the '/' between the segments percent-encoded
encode_path(segments) ==
    IF segments = <<>> THEN ""
    ELSE IF Len(segments) = 1 THEN segments[1]
    ELSE segments[1] \o "%2F" \o encode_path(Tail(segments))

\* Gitlab::new: base_project_url
BaseProjectUrl == "https://gitlab.com/api/v4/projects"

ProjectIds == {54345}
InvalidArguments ==
    "Invalid arguments, can only get project data by id or by owner/repo path"

\* get_project_data taking the id when both an id and a path are given
get_project_data_url_by_id(id, path) ==
    IF IsSome(id) THEN Ok(<<Url(BaseProjectUrl \o "/" \o ToString(Unwrap(id)), FALSE)>>)
    ELSE IF IsSome(path)
    THEN Ok(<<Url(BaseProjectUrl \o "/" \o encode_path(Unwrap(path)), FALSE)>>)
    ELSE Ok(<<Url(RestApiBasepath, FALSE)>>)

\* get_project_data answering conflicting arguments with PreconditionNotMet
get_project_data_url_precondition(id, path) ==
    IF IsSome(id) /\ IsSome(path) THEN ErrMessage("PreconditionNotMet", InvalidArguments)
    ELSE IF IsSome(id)
    THEN Ok(<<Url(BaseProjectUrl \o "/" \o ToString(Unwrap(id)), FALSE)>>)
    ELSE IF IsSome(path)
    THEN Ok(<<Url(BaseProjectUrl \o "/" \o encode_path(Unwrap(path)), FALSE)>>)
    ELSE Ok(<<Url(RestApiBasepath, FALSE)>>)

\* get_project_data asking for the configured repository whatever the path
get_project_data_url_configured_path(id, path) ==
    IF IsSome(id) /\ IsSome(path) THEN ErrMessage("ApplicationError", InvalidArguments)
    ELSE IF IsSome(id)
    THEN Ok(<<Url(BaseProjectUrl \o "/" \o ToString(Unwrap(id)), FALSE)>>)
    ELSE Ok(<<Url(RestApiBasepath, FALSE)>>)

\* get_project_data: the URL for the (id, path) given, or the error for both
get_project_data_url(id, path) ==
    IF IsSome(id) /\ ~IsSome(path)
    THEN Ok(<<Url(BaseProjectUrl \o "/" \o ToString(Unwrap(id)), FALSE)>>)
    ELSE IF ~IsSome(id) /\ IsSome(path)
    THEN Ok(<<Url(BaseProjectUrl \o "/" \o encode_path(Unwrap(path)), FALSE)>>)
    ELSE IF ~IsSome(id) /\ ~IsSome(path)
    THEN Ok(<<Url(RestApiBasepath, FALSE)>>)
    ELSE ErrMessage("ApplicationError", InvalidArguments)

\* {"id": .., "default_branch": .., "web_url": .., "created_at": ..}: the
\* id as its digits, and the default branch
ProjectBody(id, default_branch) ==
    [valid |-> TRUE, shape |-> "project", items |-> <<id, default_branch>>]
ProjectBodies ==
    {TextBody, BareObjectBody, ProjectBody(<<"7">>, <<"main">>)}
ProjectResponses ==
    {Response(st, b, None, None, None) : st \in SendStatuses, b \in ProjectBodies}

\* GitlabProjectFields::from(&body) and Project::from(fields): every field
\* is unwrapped
MapProject(body) ==
    IF body.shape # "project" THEN Panic
    ELSE Ok(<<[id |-> DecimalValue(body.items[1]), default_branch |-> body.items[2]]>>)

\* a send! function with a map type mapping the body before it reads the status
send_map_first(response, url, method) ==
    IF ~IsResponse(response) THEN Err("HttpTransportError", <<>>, 0)
    ELSE IF json_loads(response.body).tag = "Err" THEN json_loads(response.body)
    ELSE IF MapProject(json_loads(response.body).val).tag # "Ok"
    THEN MapProject(json_loads(response.body).val)
    ELSE IF ~is_ok(response, method) THEN query_error(url, response)
    ELSE MapProject(json_loads(response.body).val)

\* send!(gitlab_project_data, GitlabProjectFields, Project), after
\* runner.run has answered
gitlab_project_data(response, url, method) ==
    LET sent == send_request(response, url, method) IN
    IF sent.tag = "Err" THEN sent
    ELSE IF json_loads(sent.val[1].body).tag = "Err" THEN json_loads(sent.val[1].body)
    ELSE MapProject(json_loads(sent.val[1].body).val)

\* send!(.., serde_json::Value), after runner.run has answered
send_json(response, url, method) ==
    LET sent == send_request(response, url, method) IN
    IF sent.tag = "Err" THEN sent ELSE json_loads(sent.val[1].body)

\* Gitlab::get_project_data: with both an id and a path it returns its error
\* at once; else it makes one GET through gitlab_project_data
GetProjectData ==
    /\ pc = "idle"
    /\ \E id \in {None} \cup {Some(i) : i \in ProjectIds},
          path \in {None} \cup {Some(p) : p \in ProjectPaths} :
          LET url == get_project_data_url(id, path)
              o == [kind |-> "get_project_data", list_args |-> None, sub |-> None,
                    url |-> IF url.tag = "Ok" THEN url.val[1] ELSE Url("", FALSE),
                    id |-> id, path |-> path]
          IN IF url.tag = "Err"
             THEN /\ op' = o
                  /\ result' = url
                  /\ UNCHANGED <<request, trace, resp>>
             ELSE \E response \in {TransportError} \cup ProjectResponses :
                     /\ op' = o
                     /\ request' = [method |-> "GET", url |-> url.val[1],
                                    max_pages |-> None, headers |-> GitlabHeaders,
                                    operation |-> "Project"]
                     /\ trace' = Append(trace, RunEvent(request'))
                     /\ resp' = response
                     /\ result' = gitlab_project_data(response, url.val[1], "GET")
    /\ pc' = "done"
    /\ UNCHANGED <<pag, acc, waits, stdout, writer, cmdResult>>

\* a send! function returning the JSON value of the body
SendJson ==
    /\ pc = "idle"
    /\ \E method \in SendMethods, url \in BaseUrls,
          response \in {TransportError} \cup SendResponses :
          /\ op' = [kind |-> "send_json", list_args |-> None, sub |-> None, url |-> url]
          /\ request' = [method |-> method, url |-> url, max_pages |-> None,
                         headers |-> GitlabHeaders, operation |-> "MergeRequest"]
          /\ trace' = Append(trace, RunEvent(request'))
          /\ resp' = response
          /\ result' = send_json(response, url, method)
    /\ pc' = "done"
    /\ UNCHANGED <<pag, acc, waits, stdout, writer, cmdResult>>

----------------------------------------------------------------------------
(* Gitlab::merge, get and close (gitlab.rs): single calls *)

\* the operation, its method and the tail of its URL after
\* <basepath>/merge_requests/<id>
MergeRequestCalls ==
    {[name |-> "merge", method |-> "PUT", tail |-> "/merge"],
     [name |-> "get", method |-> "GET", tail |-> ""],
     [name |-> "close", method |-> "PUT", tail |-> ""]}
MergeRequestIds == {7}

\* format!("{}/merge_requests/{}", self.rest_api_basepath(), id), and with
\* /merge after it for merge
MergeRequestApiUrl(call, id) ==
    Url(RestApiBasepath \o "/merge_requests/" \o ToString(id) \o call.tail, FALSE)

MergeRequestStatuses == {200, 201, 404, 500}
MergeRequestResponses ==
    {Response(st, b, None, None, None) :
        st \in MergeRequestStatuses,
        b \in {TextBody, BareObjectBody}
                 \cup {MergeRequestBody(i, MergeRequestUrl(Domain, Path, i)) : i \in Iids}}

\* Gitlab::merge, get and close, after runner.run has answered: the status
\* checked against 200, the body parsed, and iid and web_url unwrapped (get
\* unwraps source_branch as well, which a merge request's JSON holds)
merge_request_call(response) ==
    IF ~IsResponse(response) THEN Err("HttpTransportError", <<>>, 0)
    ELSE IF response.status # 200 THEN Err("Generic", response.body, 0)
    ELSE IF ~response.body.valid THEN Err("Json", <<>>, 0)
    ELSE IF response.body.shape # "merge_request" THEN Panic
    ELSE Ok(<<MergeRequestResponse(DecimalValue(response.body.items[1]),
                                   response.body.items[2])>>)

\* Gitlab::merge, get, close: one request with the token, run once
GitlabMergeRequestCall ==
    /\ pc = "idle"
    /\ \E call \in MergeRequestCalls, id \in MergeRequestIds,
          response \in {TransportError} \cup MergeRequestResponses :
          /\ op' = [kind |-> call.name, list_args |-> None, sub |-> None,
                    url |-> MergeRequestApiUrl(call, id)]
          /\ request' = [method |-> call.method, url |-> MergeRequestApiUrl(call, id),
                         max_pages |-> None, headers |-> GitlabHeaders,
                         operation |-> "MergeRequest"]
          /\ trace' = Append(trace, RunEvent(request'))
          /\ resp' = response
          /\ result' = merge_request_call(response)
    /\ pc' = "done"
    /\ UNCHANGED <<pag, acc, waits, stdout, writer, cmdResult>>

Next ==
    \/ SendRequest
    \/ GitlabOpen
    \/ ListCommand
    \/ GitlabList
    \/ PaginatorNext
    \/ RunTransportError
    \/ RunThrottled
    \/ RunYields
    \/ QueryPages
    \/ QueryNumResources
    \/ GetProjectData
    \/ SendJson
    \/ GitlabMergeRequestCall

Spec == Init /\ [][Next]_vars

----------------------------------------------------------------------------
(* The end of paged! on its own: pages of any dates, and any time window *)

Timestamps == 1..3
\* the entities mapped from the r-th page: none, or MaxItems of any dates
DatedPages(r) ==
    {<<>>} \cup {[i \in 1..MaxItems |-> [id |-> <<r, i>>, created_at |-> f[i]]] :
                    f \in [1..MaxItems -> Timestamps]}
RECURSIVE PagesUpTo(_)
\* the first n pages
PagesUpTo(n) ==
    IF n = 0 THEN {<<>>}
    ELSE {Append(ps, p) : ps \in PagesUpTo(n - 1), p \in DatedPages(n)}
\* what collect() may hold when the Paginator ends: MaxPages pages
CollectedPages == PagesUpTo(MaxPages)
\* the bounds of a time window
WindowBounds == {None, Some(2)}
\* list arguments that differ in their time window alone
WindowedListArgs ==
    {None} \cup
    {Some([page |-> None, max_pages |-> None, throttle_time |-> None,
           flush |-> FALSE, backoff_max_retries |-> 0,
           backoff_retry_after |-> DefaultBackoffWait,
           created_after |-> a, created_before |-> b]) :
        a \in WindowBounds, b \in WindowBounds}

\* a paged list whose Paginator has ended, every page mapped and collected
SortInit ==
    /\ pc = "next"
    /\ \E la \in WindowedListArgs, url \in BaseUrls :
          /\ op = [kind |-> "paged", list_args |-> la, sub |-> None, url |-> url]
          /\ request = build_list_request(url, la, GitlabHeaders, "Project")
          /\ pag = [PagedPaginator(la) EXCEPT !.iter = MaxPages]
    /\ acc \in CollectedPages
    /\ trace = <<>>
    /\ waits = <<>>
    /\ resp = NoResponse
    /\ stdout = <<>>
    /\ writer = <<>>
    /\ result = NoResult
    /\ cmdResult = NoResult

\* paged! after collect(): the pages flattened, filtered and sorted
SortFilter ==
    /\ pc = "next"
    /\ result' = PagedCollected(acc, op.list_args)
    /\ pc' = "done"
    /\ UNCHANGED <<op, request, pag, acc, trace, waits, resp, stdout, writer, cmdResult>>

SortNext == SortFilter

SortSpec == SortInit /\ [][SortNext]_vars

----------------------------------------------------------------------------
(* The list arguments on their way to build_list_request *)

\* the listing options a caller may give: any starting page, with or
\* without a maximum page count
CallerPages == {None, Some(1), Some(2)}
CallerListArgs ==
    {None} \cup
    {Some(la) : la \in
        [page : CallerPages,
         max_pages : {None} \cup {Some(n) : n \in 1..MaxPages},
         throttle_time : ThrottleTimes,
         flush : BOOLEAN,
         backoff_max_retries : 0..MaxBackoffRetries,
         backoff_retry_after : RetryAfterSeconds,
         created_after : {None},
         created_before : {None}]}

\* the maximum page count taken when a caller names a starting page alone
DefaultMaxPages == MaxPages

\* the ListBodyArgs made of a caller's options: a starting page comes with
\* a maximum page count, the caller's or the default
gen_list_args(options) ==
    IF ~IsSome(options) THEN None
    ELSE IF IsSome(Unwrap(options).page) /\ ~IsSome(Unwrap(options).max_pages)
    THEN Some([Unwrap(options) EXCEPT !.max_pages = Some(DefaultMaxPages)])
    ELSE options

\* the URLs a list function is called with: without and with a query
ListUrls ==
    {Url("https://h/api/v4/items", FALSE), Url("https://h/api/v4/items?state=opened", TRUE)}
\* the headers and operation tags a list function is called with
ListHeaders == {GitlabHeaders, {<<"Accept", "application/json">>}}
ListOperations == {"Project", "Pipeline"}

\* a list function is about to be called with a caller's options
ArgsInit ==
    /\ pc = "options"
    /\ \E la \in CallerListArgs, url \in ListUrls :
          op = [kind |-> "paged", list_args |-> la, sub |-> None, url |-> url]
    /\ \E headers \in ListHeaders, operation \in ListOperations :
          request = [NoRequest EXCEPT !.headers = headers, !.operation = operation]
    /\ pag = NoPaginator
    /\ acc = <<>>
    /\ trace = <<>>
    /\ waits = <<>>
    /\ resp = NoResponse
    /\ stdout = <<>>
    /\ writer = <<>>
    /\ result = NoResult
    /\ cmdResult = NoResult

\* the options become the ListBodyArgs handed to the list function
GenListArgs ==
    /\ pc = "options"
    /\ op' = [op EXCEPT !.list_args = gen_list_args(op.list_args)]
    /\ pc' = "idle"
    /\ UNCHANGED <<request, pag, acc, trace, waits, resp, stdout, writer, result,
                   cmdResult>>

\* build_list_request reading max_pages whether or not a page is given
BuildListRequestReadingMaxPages ==
    /\ pc = "idle" /\ op.kind = "paged"
    /\ IF IsSome(op.list_args) /\ ~IsSome(Unwrap(op.list_args).max_pages)
       THEN /\ result' = Panic
            /\ pc' = "done"
            /\ UNCHANGED request
       ELSE /\ request' = build_list_request(op.url, op.list_args, request.headers,
                                             request.operation)
            /\ pc' = "next"
            /\ UNCHANGED result
    /\ UNCHANGED <<op, pag, acc, trace, waits, resp, stdout, writer, cmdResult>>

\* paged! calls build_list_request: list_args.max_pages.unwrap() aborts the
\* process when a starting page comes without a maximum page count
BuildListRequest ==
    /\ pc = "idle" /\ op.kind = "paged"
    /\ IF /\ IsSome(op.list_args)
          /\ IsSome(Unwrap(op.list_args).page)
          /\ ~IsSome(Unwrap(op.list_args).max_pages)
       THEN /\ result' = Panic
            /\ pc' = "done"
            /\ UNCHANGED request
       ELSE /\ request' = build_list_request(op.url, op.list_args, request.headers,
                                             request.operation)
            /\ pc' = "next"
            /\ UNCHANGED result
    /\ UNCHANGED <<op, pag, acc, trace, waits, resp, stdout, writer, cmdResult>>

ArgsNext ==
    \/ GenListArgs
    \/ BuildListRequest

ArgsSpec == ArgsInit /\ [][ArgsNext]_vars

----------------------------------------------------------------------------
(* What the properties read of a state *)

Listing == op.kind \in {"paged", "gitlab_list"}
Paged == op.kind = "paged"
\* the caller asked for an explicit page range
RangeAsked == Paged /\ IsSome(op.list_args) /\ IsSome(Unwrap(op.list_args).page)
StartPage == Unwrap(Unwrap(op.list_args).page)
NumPages == Unwrap(Unwrap(op.list_args).max_pages)
\* the retry configuration the caller gave
ConfiguredRetries ==
    IF Paged /\ IsSome(op.list_args) THEN Unwrap(op.list_args).backoff_max_retries
    ELSE 0
ConfiguredWait ==
    IF Paged /\ IsSome(op.list_args) THEN Unwrap(op.list_args).backoff_retry_after
    ELSE IF Paged THEN DefaultBackoffWait ELSE 0

Runs == Events("run")
Yields == Events("yield")
Prints == Events("print")
RunPages == [i \in 1..Len(Runs) |-> Runs[i].arg]
YieldsBefore(i) == Cardinality({j \in 1..(i - 1) : trace[j].ev = "yield"})
\* the runner invocations made for the k-th page request of the call
Attempts(k) ==
    Cardinality({i \in 1..Len(trace) : trace[i].ev = "run" /\ YieldsBefore(i) = k - 1})

\* the ids of the elements the remote sent, page after page
RECURSIVE YieldedIds(_, _)
YieldedIds(ys, r) ==
    IF ys = <<>> THEN <<>>
    ELSE [i \in 1..Head(ys).arg |-> <<r, i>>] \o YieldedIds(Tail(ys), r + 1)
ExpectedIds == YieldedIds(Yields, 1)
Ids(entities) == [i \in 1..Len(entities) |-> entities[i].id]
SeqRange(seq) == {seq[i] : i \in 1..Len(seq)}

\* a 4xx other than the throttling status, or a 5xx
FailureStatus(response) ==
    response.status >= 400 /\ response.status < 600 /\ ~IsThrottled(response)
\* a success response whose body is not what the list iterates
BadBody(response) ==
    /\ is_ok(response, "GET")
    /\ response.body.shape # (IF Paged /\ IsSome(op.sub) THEN "object" ELSE "array")
\* the last call made for a list failed: no response, a throttling response
\* the backoff gave up on (the call is over), a failure status or a bad body
FailedCall ==
    /\ resp # NoResponse
    /\ \/ ~IsResponse(resp)
       \/ IsThrottled(resp) /\ pc = "done"
       \/ FailureStatus(resp)
       \/ BadBody(resp)
\* the page request that failed
FailingPage == Len(Yields) + (IF ~IsResponse(resp) \/ IsThrottled(resp) THEN 1 ELSE 0)

NoResourcesFound == <<TextLine("No resources found.\n")>>

----------------------------------------------------------------------------
(* C1 *)

\* the first response of a list without page range, and it carries no
\* pagination headers
FirstResponseWithoutPageHeaders ==
    /\ Listing /\ ~RangeAsked
    /\ Calls = 1
    /\ IsResponse(resp)
    /\ ~HasPageHeaders(resp)

\* C1 as stated: for a list with no explicit page range, if the first
\* response carries no pagination headers, the runner is invoked exactly once
\* during the list call.
C1_AsStated == [][FirstResponseWithoutPageHeaders => Calls' = 1]_vars

\* C1: for a list with no explicit page range, if the first response carries
\* no pagination headers and is not a throttling response that the configured
\* backoff retries, the runner is invoked exactly once during the list call.
C1_SingleCallWithoutPageHeaders ==
    [][(FirstResponseWithoutPageHeaders
            /\ ~(IsThrottled(resp) /\ ConfiguredRetries > 0))
          => Calls' = 1]_vars

C1_Witness ==
    /\ pc = "done" /\ Paged /\ ~RangeAsked
    /\ Calls = 1
    /\ resp.status = 200 /\ ~HasPageHeaders(resp)
    /\ result.tag = "Ok" /\ Len(result.val) >= 1

----------------------------------------------------------------------------
(* C2 *)

LinkStrategy == Listing /\ ~RangeAsked

\* under the link strategy a page after the first is requested only while
\* the latest response names a next page, and it is that page; the call
\* ends well at the first response that names none
LinkRequests ==
    LinkStrategy =>
        /\ (pc = "run" /\ pag.iter >= 1) =>
               IsSome(pag.next) /\ request.url.page = pag.next
        /\ (pc = "done" /\ result.tag = "Ok") =>
               pag.iter >= 1 /\ ~IsSome(pag.next) /\ ~IsSome(resp.next)

----------------------------------------------------------------------------
(* C3 *)

PageRange == [i \in 1..NumPages |-> StartPage + i - 1]

\* C3 as stated: with an explicit page range (start, n), a successful list
\* call invokes the runner exactly n times, for pages start .. start+n-1,
\* whatever next and last relations the responses carry.
C3_AsStated ==
    (RangeAsked /\ pc = "done" /\ result.tag = "Ok") => RunPages = PageRange

\* C3: with an explicit page range (start, n), a successful list call
\* requests exactly the n pages start .. start+n-1, in order, whatever next
\* and last relations the responses carry; the runner is invoked once for
\* each page and once more for each backoff retry of a throttled response
\* (exactly n times when max retries is 0).
C3_ExplicitRangePages ==
    (RangeAsked /\ pc = "done" /\ result.tag = "Ok") =>
        /\ Len(Yields) = NumPages
        /\ SeqRange(RunPages) = SeqRange(PageRange)
        /\ \A i \in 1..(Len(RunPages) - 1) : RunPages[i] <= RunPages[i + 1]
        /\ \A k \in 1..NumPages :
               /\ Attempts(k) >= 1 /\ Attempts(k) <= ConfiguredRetries + 1
               /\ \A i \in 1..Len(trace) :
                      (trace[i].ev = "run" /\ YieldsBefore(i) = k - 1)
                          => trace[i].arg = StartPage + k - 1
        /\ ConfiguredRetries = 0 => RunPages = PageRange

C3_Witness ==
    /\ RangeAsked /\ pc = "done" /\ result.tag = "Ok"
    /\ NumPages = 2
    /\ Calls = 3
    /\ IsSome(resp.next)

----------------------------------------------------------------------------
(* C4 *)

\* the calls made for any one request number at most max retries + 1, and a
\* request is given up with the max-retries error after exactly max retries
\* retries
BackoffBounded ==
    Paged =>
        /\ Len(waits) <= ConfiguredRetries
        /\ \A k \in 1..(Len(Yields) + 1) : Attempts(k) <= ConfiguredRetries + 1
        /\ (IsThrottled(resp) /\ pc # "done") => pc = "run" /\ waits # <<>>
        /\ (IsThrottled(resp) /\ pc = "done") =>
               /\ result.tag = "Err"
               /\ result.err = "ExponentialBackoffMaxRetriesReached"
               /\ Len(waits) = ConfiguredRetries
               /\ Attempts(Len(Yields) + 1) = ConfiguredRetries + 1

\* C4 as stated: when every response to a request signals throttling, the
\* backoff waits at least the base wait before each retry, fails with the
\* max-retries error once the retries are exhausted, and never invokes the
\* runner max_retries + 2 times for the request.
C4_AsStated ==
    /\ BackoffBounded
    /\ Paged => \A i \in 1..Len(waits) : waits[i] >= ConfiguredWait

\* C4: when every response to a request signals throttling, the backoff
\* waits before each retry the retry-after the response gives, and at least
\* the base wait when the response gives none; it fails with the max-retries
\* error once the retries are exhausted, and never invokes the runner
\* max_retries + 2 times for the request.
C4_BackoffWaitsAndGivesUp ==
    /\ BackoffBounded
    /\ (Paged /\ pc = "run" /\ waits # <<>>) =>
           /\ IsThrottled(resp)
           /\ IF IsSome(resp.retry_after)
              THEN waits[Len(waits)] = Unwrap(resp.retry_after)
              ELSE waits[Len(waits)] >= ConfiguredWait

C4_Witness ==
    /\ Paged /\ pc = "done"
    /\ ConfiguredRetries >= 1
    /\ IsThrottled(resp)
    /\ result.err = "ExponentialBackoffMaxRetriesReached"
    /\ Len(waits) = ConfiguredRetries
    /\ waits[1] >= ConfiguredWait
    /\ Len(Yields) >= 1

----------------------------------------------------------------------------
(* C5 *)

----------------------------------------------------------------------------
(* C6 *)

\* a failed call ends the list at once, with an error
FailureEndsList == (Listing /\ FailedCall) => pc = "done" /\ result.tag = "Err"

\* C6 as stated: once the request for page k fails, no request for a later
\* page is issued, and the number of runner invocations equals the number
\* of pages up to and including the failing one.
C6_AsStated ==
    /\ FailureEndsList
    /\ (Listing /\ pc = "done" /\ result.tag = "Err") => Calls = FailingPage

\* C6: once the request for page k fails, no request for a later page is
\* issued: the runner was invoked for the pages up to and including the
\* failing one and no other, once for each of them and once more for each
\* backoff retry of a throttled response (so exactly k times when max
\* retries is 0).
C6_NoRequestAfterFailure ==
    /\ FailureEndsList
    /\ (Listing /\ pc = "done" /\ result.tag = "Err") =>
           /\ FailedCall
           /\ \A i \in 1..Len(trace) :
                  trace[i].ev = "run" => YieldsBefore(i) < FailingPage
           /\ \A k \in 1..FailingPage :
                  Attempts(k) >= 1 /\ Attempts(k) <= ConfiguredRetries + 1
           /\ ConfiguredRetries = 0 => Calls = FailingPage

C6_Witness ==
    /\ Paged /\ pc = "done" /\ result.tag = "Err"
    /\ FailingPage = 2
    /\ Calls = 3
    /\ IsSome(resp.next)

----------------------------------------------------------------------------
(* C7 *)

\* C7: when the request for any page of a list fails, the list returns the
\* error alone: no entity mapped from the pages fetched before is returned
\* to the caller, and the list_* command writes none.
C7_NoPartialResult ==
    (Listing /\ pc = "done" /\ FailedCall) =>
        /\ result.tag = "Err"
        /\ result.val = <<>>
        /\ Paged => cmdResult = result /\ writer = <<>>

C7_Witness ==
    /\ Paged /\ pc = "done" /\ FailedCall
    /\ ~Flush(op.list_args)
    /\ Len(Yields) = 2
    /\ Yields[1].arg >= 1
    /\ FailureStatus(resp)
    /\ result.tag = "Err"

----------------------------------------------------------------------------
(* C8 *)

\* the words of the conflict message, when the body is {"message": [m]}
ConflictWords == resp.body.items
\* the message ends "!N", N a decimal integer: its digits
EndsWithBangNumber ==
    /\ resp.body.shape = "conflict"
    /\ ConflictWords # <<>>
    /\ LET last == ConflictWords[Len(ConflictWords)] IN
       /\ Len(last) >= 2
       /\ last[1] = "!"
       /\ \A i \in 2..Len(last) : IsDigit(last[i])
NumberDigits == Tail(ConflictWords[Len(ConflictWords)])

\* C8: Gitlab's open, answered 409 with a body whose message ends "!N" for a
\* decimal integer N, returns success with id N and the URL
\* https://<domain>/<path>/-/merge_requests/N; no 409 response makes it
\* return the 'Failed to open merge request' error.
C8_ConflictIsSuccess ==
    (op.kind = "open" /\ resp.status = 409) =>
        /\ pc = "done"
        /\ ~(result.tag = "Err" /\ result.err = "Generic")
        /\ EndsWithBangNumber =>
               /\ result.tag = "Ok"
               /\ Len(result.val) = 1
               /\ result.val[1].id = DecimalValue(NumberDigits)
               /\ result.val[1].web_url =
                      <<"https://", Domain, "/", Path, "/-/merge_requests/">>
                          \o NumberDigits

C8_Witness ==
    /\ op.kind = "open" /\ resp.status = 409
    /\ resp.body = ConflictBody(<<Word, <<"!", "6", "0">>>>)
    /\ result.tag = "Ok"
    /\ result.val[1].id = 60
    /\ result.val[1].web_url =
           <<"https://", "gitlab.com", "/", "owner/repo", "/-/merge_requests/",
             "6", "0">>

----------------------------------------------------------------------------
(* C9 *)

\* C9: Gitlab's open succeeds only for a response with status 201, returning
\* the iid and web_url of its body, or with status 409; for every other
\* status it returns an error carrying the response body; in each case the
\* runner was invoked exactly once.
C9_OpenAcceptedStatuses ==
    op.kind = "open" =>
        /\ pc = "done"
        /\ Calls = 1
        /\ result.tag = "Ok" => resp.status \in {201, 409}
        /\ (result.tag = "Ok" /\ resp.status = 201) =>
               /\ resp.body.shape = "merge_request"
               /\ result.val[1].id = DecimalValue(resp.body.items[1])
               /\ result.val[1].web_url = resp.body.items[2]
        /\ (IsResponse(resp) /\ resp.status \notin {201, 409}) =>
               /\ result.tag = "Err"
               /\ result.err = "Generic"
               /\ result.body = resp.body

C9_Witness ==
    /\ op.kind = "open" /\ pc = "done"
    /\ resp.status = 200
    /\ resp.body.shape = "merge_request"
    /\ result.tag = "Err" /\ result.err = "Generic"
    /\ result.body = resp.body
    /\ Calls = 1

----------------------------------------------------------------------------
(* C10 *)

\* the array the list iterates, the body or its sub-array, is empty
EmptyPage(response) ==
    /\ response.status = 200
    /\ response.body.items = <<>>
    /\ response.body.shape = (IF IsSome(op.sub) THEN "object" ELSE "array")

----------------------------------------------------------------------------
(* C11 *)

----------------------------------------------------------------------------
(* C12 *)

\* the command that ran and the name it gives the count
Counting == op.kind \in {"num_pages", "num_resources"}
ResourceName == IF op.kind = "num_pages" THEN "pages" ELSE "resources"

\* C12: num_pages returns the page number of the `last` relation when the
\* page headers carry one, and None when page headers are present without
\* `last`; process_num_metadata renders None as
\* "Number of <pages|resources> not available." and never as 0, Some(count)
\* as the count followed by a newline, and on Err returns the error without
\* writing anything.
C12_CountOrNotAvailable ==
    /\ (op.kind = "num_pages" /\ IsResponse(resp)) =>
           /\ IsSome(resp.last) => result = Ok(<<resp.last>>)
           /\ (IsSome(resp.next) /\ ~IsSome(resp.last)) => result = Ok(<<None>>)
    /\ (Counting /\ pc = "done") =>
           /\ result = Ok(<<None>>) =>
                  /\ writer = <<TextLine(IF ResourceName = "pages"
                                         THEN "Number of pages not available.\n"
                                         ELSE "Number of resources not available.\n")>>
                  /\ writer # <<TextLine("0\n")>>
                  /\ cmdResult = Ok(<<>>)
           /\ \A count \in 0..9 :
                  result = Ok(<<Some(count)>>) =>
                      /\ writer = <<TextLine(<<"0\n", "1\n", "2\n", "3\n", "4\n",
                                               "5\n", "6\n", "7\n", "8\n", "9\n">>[count + 1])>>
                      /\ cmdResult = Ok(<<>>)
           /\ result.tag = "Ok" => result.val[1] = None \/ result.val[1][1] \in 0..9
           /\ result.tag = "Err" => writer = <<>> /\ cmdResult = result

C12_Witness ==
    /\ op.kind = "num_pages" /\ pc = "done"
    /\ IsSome(resp.next) /\ ~IsSome(resp.last)
    /\ result = Ok(<<None>>)
    /\ writer = <<TextLine("Number of pages not available.\n")>>
    /\ cmdResult = Ok(<<>>)

----------------------------------------------------------------------------
(* C13 *)

\* the throttle delay the caller configured
Throttled == Paged /\ IsSome(op.list_args) /\ IsSome(Unwrap(op.list_args).throttle_time)
ThrottleDelay == Unwrap(Unwrap(op.list_args).throttle_time)
Sleeps == Events("sleep")
\* the pages the list has sent a request for
PagesFetched == Cardinality({k \in 1..(Len(Yields) + 1) : Attempts(k) >= 1})
RECURSIVE SumArgs(_)
SumArgs(events) == IF events = <<>> THEN 0 ELSE Head(events).arg + SumArgs(Tail(events))

----------------------------------------------------------------------------
(* C14 *)

\* get_project_data was called with both an id and an owner/repo path
BothIdAndPath == op.kind = "get_project_data" /\ IsSome(op.id) /\ IsSome(op.path)

\* C14: Gitlab get_project_data called with both an id and an owner/repo
\* path returns an ApplicationError with the message "Invalid arguments, can
\* only get project data by id or by owner/repo path" and issues no request
\* to the runner.
C14_BothIdAndPathRejected ==
    BothIdAndPath =>
        /\ pc = "done"
        /\ result.tag = "Err"
        /\ result.err = "ApplicationError"
        /\ result.msg =
               "Invalid arguments, can only get project data by id or by owner/repo path"
        /\ Calls = 0
        /\ trace = <<>>
        /\ request = NoRequest
        /\ resp = NoResponse

C14_Witness ==
    /\ BothIdAndPath /\ pc = "done"
    /\ op.id = Some(54345) /\ op.path = Some(<<"owner", "repo">>)
    /\ result.err = "ApplicationError"
    /\ result.msg = InvalidArguments
    /\ Calls = 0

----------------------------------------------------------------------------
(* C15 *)

\* C15 as stated: when a caller supplies conflicting arguments to a resource
\* operation, namely both an id and a natural-key path to get_project_data,
\* the error returned is of the precondition-not-met kind.
C15_AsStated ==
    BothIdAndPath => result.tag = "Err" /\ result.err = "PreconditionNotMet"

\* C15: when a caller supplies conflicting arguments to a resource
\* operation, namely both an id and a natural-key path to get_project_data,
\* the error returned is of the application-error kind, not of the
\* precondition-not-met kind.
C15_ConflictingArgumentsError ==
    BothIdAndPath =>
        /\ result.tag = "Err"
        /\ result.err = "ApplicationError"
        /\ result.err # "PreconditionNotMet"

C15_Witness ==
    /\ BothIdAndPath
    /\ result.tag = "Err"
    /\ result.err = "ApplicationError"
    /\ result.val = <<>>

----------------------------------------------------------------------------
(* C16 *)

\* the Gitlab resource operations of the model: open, list and
\* list_pipelines, the paged lists (get_project_members, list), merge, get,
\* close, get_project_data and num_pages
GitlabOperation ==
    op.kind \in {"open", "gitlab_list", "paged", "merge", "get", "close",
                 "get_project_data", "num_pages"}

\* C16: every request that reaches the runner from a Gitlab resource
\* operation (open, list, merge, get, close, get_project_data,
\* get_project_members, list_pipelines, num_pages), including every page
\* request after the first in a paged list, carries the configured access
\* token in the PRIVATE-TOKEN header.
C16_TokenOnEveryRequest ==
    GitlabOperation =>
        /\ \A i \in 1..Len(Runs) : Runs[i].tok = ApiToken
        /\ (pc = "run" \/ Calls >= 1) =>
               HeaderValue(request.headers, "PRIVATE-TOKEN") = ApiToken

C16_Witness ==
    /\ op.kind = "gitlab_list" /\ pc = "done"
    /\ Calls = MaxPages
    /\ Runs[Calls].arg = MaxPages
    /\ \A i \in 1..Calls : Runs[i].tok = "1234"

----------------------------------------------------------------------------
(* C17 *)

\* the entities in the order they arrived
Arrived == Flatten(acc)
\* the caller's time window
HasWindowArgs == IsSome(op.list_args)
\* e lies outside the time window of the caller
OutsideWindow(e) ==
    /\ HasWindowArgs
    /\ \/ /\ IsSome(Unwrap(op.list_args).created_after)
          /\ e.created_at < Unwrap(Unwrap(op.list_args).created_after)
       \/ /\ IsSome(Unwrap(op.list_args).created_before)
          /\ e.created_at > Unwrap(Unwrap(op.list_args).created_before)
\* where an entity arrived
ArrivalIndex(e) == CHOOSE i \in 1..Len(Arrived) : Arrived[i] = e

\* C17: after all pages are concatenated, a paged list drops every entity
\* whose canonical timestamp lies outside the caller's optional time window
\* and returns the rest sorted most-recent-first, with entities of equal
\* timestamp kept in their original arrival order (stable sort); with no
\* window and no list arguments, no entity is dropped.
C17_FilteredAndSorted ==
    (Paged /\ pc = "done" /\ result.tag # "Err") =>
        /\ result.tag = "Ok"
        /\ \A i \in 1..Len(Arrived) :
               (Arrived[i] \in SeqRange(result.val)) <=> ~OutsideWindow(Arrived[i])
        /\ SeqRange(result.val) \subseteq SeqRange(Arrived)
        /\ \A i, j \in 1..Len(result.val) :
               i < j =>
                   /\ result.val[i] # result.val[j]
                   /\ result.val[i].created_at >= result.val[j].created_at
                   /\ result.val[i].created_at = result.val[j].created_at =>
                          ArrivalIndex(result.val[i]) < ArrivalIndex(result.val[j])
        /\ ~HasWindowArgs => Len(result.val) = Len(Arrived)

C17_Witness ==
    /\ Paged /\ pc = "done" /\ result.tag = "Ok"
    /\ HasWindowArgs
    /\ IsSome(Unwrap(op.list_args).created_after)
    /\ Len(Arrived) = MaxPages * MaxItems
    /\ Len(result.val) = 3
    /\ result.val[1].created_at = 3
    /\ result.val[2].created_at = 2 /\ result.val[3].created_at = 2
    /\ result.val[2].id[1] = 1 /\ result.val[3].id[1] = 2
    /\ Arrived[1].created_at = 2 /\ Arrived[2].created_at = 1

----------------------------------------------------------------------------
(* C18 *)

FlushMode == Paged /\ Flush(op.list_args)
\* the prints made before the i-th effect
PrintsBefore(i) == Cardinality({j \in 1..(i - 1) : trace[j].ev = "print"})

----------------------------------------------------------------------------
(* C19 *)

\* the single calls through send_request, and those of Gitlab's merge
\* request operations
SendCall ==
    \/ op.kind \in {"send", "send_json"}
    \/ op.kind = "get_project_data" /\ ~BothIdAndPath
MergeRequestCall == op.kind \in {"merge", "get", "close"}
\* the response has the success status the operation expects
ExpectedStatus ==
    IF MergeRequestCall THEN resp.status = 200 ELSE is_ok(resp, request.method)

\* C19: a single-call operation (send_request and the send! functions;
\* Gitlab get, merge, close) invokes the runner exactly once and, if the
\* response status is not the success status expected for the method,
\* returns an error whose message contains the response body (send_request:
\* a RemoteServerError naming URL, status code and body) without attempting
\* to map the body into an entity.
C19_SingleCallStatusError ==
    (SendCall \/ MergeRequestCall) =>
        /\ pc = "done"
        /\ Calls = 1
        /\ Len(trace) = 1
        /\ (IsResponse(resp) /\ ~ExpectedStatus) =>
               /\ result.tag = "Err"
               /\ result.val = <<>>
               /\ result.body = resp.body
               /\ result.err = (IF SendCall THEN "RemoteServerError" ELSE "Generic")
               /\ SendCall => result.status = resp.status

C19_Witness ==
    /\ op.kind = "get_project_data" /\ pc = "done"
    /\ op.id = Some(54345) /\ op.path = None
    /\ Calls = 1
    /\ resp.status = 404 /\ resp.body = TextBody
    /\ result.tag = "Err" /\ result.err = "RemoteServerError"
    /\ result.status = 404 /\ result.body = TextBody

----------------------------------------------------------------------------
(* C20 *)

\* runner.run failed to complete the last call
TransportFailed == resp # NoResponse /\ ~IsResponse(resp)
\* the runner returned a response whose status is not 2xx
Non2xx == IsResponse(resp) /\ ~(resp.status >= 200 /\ resp.status < 300)
\* send_request (and the send! functions over it), num_pages, the lists
SendOrNumPagesOrList ==
    SendCall \/ op.kind = "num_pages" \/ Listing
\* the error of the status check of the operation, carrying the body
StatusCheckError ==
    /\ result.tag = "Err"
    /\ result.err = (IF op.kind = "gitlab_list" THEN "Generic" ELSE "RemoteServerError")
    /\ result.body = resp.body

\* a transport failure ends the operation with the transport error, and the
\* command over it with the same error
TransportFailurePropagates ==
    (SendOrNumPagesOrList /\ TransportFailed) =>
        /\ pc = "done"
        /\ result = Err("HttpTransportError", <<>>, 0)
        /\ op.kind \in {"paged", "num_pages"} => cmdResult = result /\ writer = <<>>

\* C20 as stated: a transport failure from runner.run propagates unchanged
\* out of send_request, num_pages and every list operation as a failure,
\* whereas a completed call with a non-2xx status is returned by the runner
\* as a normal Response and is turned into an error only by the
\* resource-operation layer's status check.
C20_AsStated ==
    /\ TransportFailurePropagates
    /\ (SendOrNumPagesOrList /\ Non2xx /\ result.tag = "Err") => StatusCheckError

\* C20: a transport failure from runner.run propagates unchanged out of
\* send_request, num_pages and every list operation as a failure, whereas a
\* completed call with a non-2xx status is returned by the runner as a
\* normal Response and is turned into an error only by the
\* resource-operation layer's status check (num_pages has none and returns
\* no error) or, when the status signals throttling to a list operation, by
\* the backoff giving up with its max-retries error.
C20_TransportVersusStatus ==
    /\ TransportFailurePropagates
    /\ (SendOrNumPagesOrList /\ Non2xx) =>
           /\ result.err # "HttpTransportError"
           /\ IF op.kind = "num_pages" THEN pc = "done" /\ result.tag = "Ok"
              ELSE IF Listing /\ IsThrottled(resp)
              THEN pc = "done" =>
                       /\ result.tag = "Err"
                       /\ result.err = "ExponentialBackoffMaxRetriesReached"
              ELSE pc = "done" /\ StatusCheckError

C20_Witness ==
    /\ Paged /\ pc = "done"
    /\ TransportFailed
    /\ Len(Yields) = 1 /\ Calls = 2
    /\ result = Err("HttpTransportError", <<>>, 0)
    /\ cmdResult = result

----------------------------------------------------------------------------
(* C21 *)

\* the ListBodyArgs has reached build_list_request
ReachedBuildListRequest == Paged /\ pc \in {"idle", "next", "done"}
PageSet == IsSome(op.list_args) /\ IsSome(Unwrap(op.list_args).page)

----------------------------------------------------------------------------
(* C22 *)

\* get_project_data received a 2xx response whose body is a JSON object
\* without the mandatory fields of a project
ProjectFieldsMissing ==
    /\ op.kind = "get_project_data" /\ pc = "done"
    /\ IsResponse(resp) /\ is_ok(resp, "GET")
    /\ resp.body = BareObjectBody

\* C22: when a response element lacks a mandatory JSON field or has it in
\* the wrong shape (id, default_branch, web_url, created_at of a GitLab
\* project), the operation returns an unexpected-response-contract error; it
\* neither aborts the process nor returns an entity.
C22_AsStated ==
    ProjectFieldsMissing =>
        /\ result.tag = "Err"
        /\ result.err = "RemoteUnexpectedResponseContract"

----------------------------------------------------------------------------
(* C24 *)

\* the command that ran
Command(cmd) == Counting /\ pc = "done" /\ op.cmd = cmd

\* what num_comment_merge_request_pages does with a response: one HEAD
\* request through remote.num_pages, the output and the value returned
CommentPagesOutcome(response) ==
    [method |-> "HEAD",
     num |-> num_pages(response),
     out |-> process_num_metadata(num_pages(response), "pages").out,
     ret |-> process_num_metadata(num_pages(response), "pages").ret]

\* C24: for merge-request comments, num_comment_merge_request_resources
\* behaves identically to num_comment_merge_request_pages: both invoke
\* remote.num_pages and write the same output, labelled as pages.
C24_CommentResourcesArePages ==
    \A cmd \in {"num_comment_merge_request_pages",
                "num_comment_merge_request_resources"} :
        Command(cmd) =>
            /\ op.kind = "num_pages"
            /\ Calls = 1
            /\ request.method = CommentPagesOutcome(resp).method
            /\ result = CommentPagesOutcome(resp).num
            /\ writer = CommentPagesOutcome(resp).out
            /\ cmdResult = CommentPagesOutcome(resp).ret
            /\ result = Ok(<<None>>) =>
                   writer = <<TextLine("Number of pages not available.\n")>>

C24_Witness ==
    /\ Command("num_comment_merge_request_resources")
    /\ IsResponse(resp) /\ IsSome(resp.next) /\ ~IsSome(resp.last)
    /\ result = Ok(<<None>>)
    /\ writer = <<TextLine("Number of pages not available.\n")>>
    /\ cmdResult = Ok(<<>>)

----------------------------------------------------------------------------
(* C25 *)

\* get_project_data was called with at most one of id and path
OneProjectAsked == op.kind = "get_project_data" /\ pc = "done" /\ ~BothIdAndPath

\* C25: Gitlab get_project_data requests exactly one URL chosen by its
\* arguments: <base>/projects/<id> when only an id is given,
\* <base>/projects/<path with '/' as %2F> when only a path is given, and the
\* configured rest_api_basepath when neither is given; the path argument
\* overrides the configured repository path.
C25_ProjectUrlByArguments ==
    OneProjectAsked =>
        /\ Calls = 1
        /\ Len(trace) = 1
        /\ request.method = "GET"
        /\ request.url.sep = "" /\ request.url.page = None
        /\ (IsSome(op.id) /\ ~IsSome(op.path)) =>
               request.url.base =
                   "https://gitlab.com/api/v4/projects/" \o ToString(Unwrap(op.id))
        /\ (~IsSome(op.id) /\ IsSome(op.path)) =>
               /\ request.url.base =
                      "https://gitlab.com/api/v4/projects/"
                          \o Unwrap(op.path)[1] \o "%2F" \o Unwrap(op.path)[2]
               /\ Unwrap(op.path) # PathSegments => request.url.base # RestApiBasepath
        /\ (~IsSome(op.id) /\ ~IsSome(op.path)) =>
               request.url.base = "https://gitlab.com/api/v4/projects/owner%2Frepo"

C25_Witness ==
    /\ OneProjectAsked
    /\ op.id = None /\ op.path = Some(<<"jordilin", "gitlapi">>)
    /\ Calls = 1
    /\ request.url.base = "https://gitlab.com/api/v4/projects/jordilin%2Fgitlapi"
    /\ result.tag = "Ok"

----------------------------------------------------------------------------
(* C26 *)

\* a step of build_list_request that returns a request
BuildsListRequest == Paged /\ pc = "idle" /\ pc' = "next"

\* C26: build_list_request: given list_args with a starting page p, the
\* first URL requested is the base URL with `page=p` appended, using '&' if
\* the base URL already contains '?' and '?' otherwise, and the request's
\* max pages is set from list_args; when list_args is absent or has no
\* starting page, the URL is unchanged and no max pages is set; the request
\* is always a GET carrying the given headers and operation tag.
C26_BuildListRequest ==
    [][BuildsListRequest =>
          /\ request'.method = "GET"
          /\ request'.headers = request.headers
          /\ request'.operation = request.operation
          /\ request'.url.base = op.url.base
          /\ request'.url.query = op.url.query
          /\ IF PageSet
             THEN /\ request'.url.page = Unwrap(op.list_args).page
                  /\ request'.url.sep = (IF op.url.query THEN "&" ELSE "?")
                  /\ request'.max_pages = Unwrap(op.list_args).max_pages
             ELSE /\ request'.url = op.url
                  /\ request'.url.sep = "" /\ request'.url.page = None
                  /\ request'.max_pages = None]_vars

C26_Witness ==
    /\ Paged /\ pc = "next"
    /\ PageSet /\ Unwrap(op.list_args).page = Some(1)
    /\ op.url.base = "https://h/api/v4/items?state=opened"
    /\ request.method = "GET"
    /\ request.url.sep = "&" /\ request.url.page = Some(1)
    /\ request.max_pages = Some(1)
    /\ request.headers = {<<"Accept", "application/json">>}
    /\ request.operation = "Pipeline"

----------------------------------------------------------------------------
(* C27 *)

\* a paged list iterating a named sub-array whose last response is a
\* successful page with a JSON body
SubArrayPage ==
    /\ Paged /\ IsSome(op.sub)
    /\ IsResponse(resp) /\ is_ok(resp, "GET") /\ resp.body.valid
\* the body holds an array under the name
HoldsSubArray == resp.body.shape = "object"
\* the entities of the elements of an array, in its order
EntitiesOf(items) ==
    [i \in 1..Len(items) |->
        [id |-> <<items[i].req, items[i].idx>>, created_at |-> items[i].created_at]]
\* the last n elements of a sequence
LastN(s, n) == SubSeq(s, Len(s) - n + 1, Len(s))

\* C27: for a paged list that iterates over a named sub-array, a successful
\* page whose JSON body lacks an array under that name fails the whole list
\* with RemoteUnexpectedResponseContract (the message names the sub-array
\* and carries the body) and no further page is requested; when the
\* sub-array is present, exactly its elements, in order, are mapped.
C27_SubArrayPages ==
    /\ (SubArrayPage /\ ~HoldsSubArray) =>
           /\ pc = "done"
           /\ result.tag = "Err"
           /\ result.err = "RemoteUnexpectedResponseContract"
           /\ result.msg = "Expected an array of items but got: "
           /\ result.body = resp.body
           /\ result.val = <<>>
           /\ cmdResult = result
           /\ trace[Len(trace)] = YieldEvent(resp)
           /\ trace[Len(trace) - 1] = RunEvent(request)
    /\ (SubArrayPage /\ HoldsSubArray) =>
           /\ acc # <<>>
           /\ IF FlushMode
              THEN /\ acc[Len(acc)] = <<>>
                   /\ Len(stdout) >= Len(resp.body.items)
                   /\ LastN(stdout, Len(resp.body.items)) = EntitiesOf(resp.body.items)
              ELSE acc[Len(acc)] = EntitiesOf(resp.body.items)

C27_Witness ==
    /\ SubArrayPage /\ ~HoldsSubArray
    /\ resp.body = BareObjectBody
    /\ Len(Yields) = 2
    /\ pc = "done"
    /\ result.err = "RemoteUnexpectedResponseContract"
    /\ result.body = BareObjectBody

----------------------------------------------------------------------------
(* C28 *)

\* num_pages was answered with a failure status
NumPagesFailureStatus ==
    op.kind = "num_pages" /\ IsResponse(resp) /\ resp.status \in {404, 500}

\* C28: num_pages never inspects the response status: a response with a
\* failure status (e.g. 404 or 500) and no page headers yields Ok(Some(1)),
\* and with page headers what the headers say.
C28_NumPagesIgnoresStatus ==
    NumPagesFailureStatus =>
        /\ result.tag = "Ok"
        /\ result = num_pages([resp EXCEPT !.status = 200])
        /\ (~IsSome(resp.next) /\ ~IsSome(resp.last)) =>
               /\ result = Ok(<<Some(1)>>)
               /\ writer = <<TextLine("1\n")>>
               /\ cmdResult = Ok(<<>>)
        /\ IsSome(resp.last) => result = Ok(<<resp.last>>)

C28_Witness ==
    /\ NumPagesFailureStatus /\ pc = "done"
    /\ resp.status = 500
    /\ ~IsSome(resp.next) /\ ~IsSome(resp.last)
    /\ result = Ok(<<Some(1)>>)
    /\ writer = <<TextLine("1\n")>>

----------------------------------------------------------------------------
(* C29 *)

\* a list_* command without the flush flag
NonFlushCommand == Paged /\ ~Flush(op.list_args)
\* the calls that wrote to the writer: display::print(&mut writer, ..) and
\* the write of "No resources found."
WriterCalls ==
    Len(SelectSeq(Prints, LAMBDA e : e.tok = "writer"))
        + (IF writer = NoResourcesFound THEN 1 ELSE 0)

\* C29: in non-flush mode, when remote.list returns an error, the list_*
\* command returns that same error and writes nothing to the writer; the
\* writer is written to at most once per command, after the whole list call
\* has succeeded.
C29_WriterAfterSuccess ==
    /\ [](NonFlushCommand =>
             /\ (pc = "done" /\ result.tag = "Err") =>
                    /\ cmdResult = result
                    /\ writer = <<>>
                    /\ WriterCalls = 0
             /\ writer # <<>> => pc = "done" /\ result.tag = "Ok"
             /\ pc # "done" => cmdResult = NoResult
             /\ WriterCalls <= 1)
    /\ [][(op'.kind = "paged" /\ ~Flush(op'.list_args) /\ writer' # writer) =>
             /\ writer = <<>>
             /\ pc # "done" /\ pc' = "done"
             /\ result'.tag = "Ok"
             /\ cmdResult' = Ok(<<>>)]_vars

C29_Witness ==
    /\ NonFlushCommand /\ pc = "done"
    /\ Len(Yields) = 2 /\ Yields[1].arg = MaxItems
    /\ result.tag = "Err" /\ result.err = "RemoteServerError"
    /\ cmdResult = result
    /\ writer = <<>>
    /\ stdout = <<>>

----------------------------------------------------------------------------
(* C30 *)

\* a paged list in flush mode has failed
FlushListFailed == FlushMode /\ pc = "done" /\ result.tag = "Err"
\* the yields of the pages before the failing one
PagesBeforeFailure == SubSeq(Yields, 1, FailingPage - 1)

\* C30: in flush mode, when page k of a paged list fails, the entities of
\* pages 1..k-1 have already been written to standard output and are not
\* retracted, although the list call itself returns only the error.
C30_FlushedPagesStay ==
    /\ [](FlushListFailed =>
             /\ result.val = <<>>
             /\ cmdResult = result
             /\ writer = <<>>
             /\ Len(Prints) = FailingPage - 1
             /\ \A i \in 1..Len(Prints) :
                    /\ Prints[i].tok = "stdout"
                    /\ Prints[i].arg = PagesBeforeFailure[i].arg
             /\ Ids(stdout) = YieldedIds(PagesBeforeFailure, 1))
    /\ [][/\ Len(stdout') >= Len(stdout)
          /\ SubSeq(stdout', 1, Len(stdout)) = stdout]_vars

C30_Witness ==
    /\ FlushListFailed
    /\ FailingPage = 2
    /\ Len(stdout) = MaxItems
    /\ Ids(stdout) = <<<<1, 1>>, <<1, 2>>>>
    /\ result.err = "HttpTransportError"
    /\ result.val = <<>>

====
